---- MODULE Spec2Model ----
(***************************************************************************)
(* StampedeMap (src/src/lib.rs) and BitMask (src/src/bitmask.rs).          *)
(*                                                                         *)
(* The map is an open-addressing table: `data` holds Slot values, `ctrl`   *)
(* holds one control byte per slot plus a 16 byte tail.  Keys are never    *)
(* stored; a key is known to the table only through its 64-bit hash.       *)
(* Hashes are kept below 2^31 (TLC integers), which loses nothing: the     *)
(* code only ever uses hash & 0x7F, hash & (capacity - 1) and equality.    *)
(* len, deleted and capacity are usize; within the bounds below no         *)
(* addition overflows, and len - 1 in delete is only computed after a slot *)
(* holding the hash was found, where len >= 1.  The field `counter` is     *)
(* never read or written after construction and is left out.               *)
(*                                                                         *)
(* A loop of the code is a recursive operator over the slots it has tried: *)
(* the loops read the table without writing it, so a loop that comes back  *)
(* to a slot it already tried never ends (Diverges, NoIdx, pc = "hung").   *)
(***************************************************************************)
EXTENDS Integers, Sequences, FiniteSets, TLC

\* ---------------------------------------------------------------- bounds
MaxVal == 2           \* values are 1..MaxVal
MaxLoad == 14         \* set is called only while len + deleted < MaxLoad
MaxDeleted == 1       \* delete leaves a tombstone only while deleted < MaxDeleted
MaxCapArg == 17       \* with_capacity(n) is called with n in 0..MaxCapArg

Values == 1..MaxVal

\* The hashes of the keys, pairwise distinct.  15 and 143 share the 7-bit tag
\* and the home slot at every capacity; 31 and 47 share the home slot 15 of a
\* 16-slot table with them but have other tags (47 also at 32 slots); 16 and
\* 0 have home slot 0, where a probe chain that starts at slot 15 wraps to.
KeyHashes == <<15, 143, 31, 47, 16, 0>>

\* Every key: the claims ask get, set and delete about each of them.
AllKeys == DOMAIN KeyHashes

\* The keys set and delete are called with to build the table.
Keys == {k \in AllKeys : KeyHashes[k] \in {15, 143}}

\* The keys two maps are fed in step with (sets only).
TwinKeys == {k \in AllKeys : KeyHashes[k] \in {15, 143, 31, 16}}

\* ------------------------------------------------------------ bit helpers
RECURSIVE BitAnd(_, _)
BitAnd(a, b) ==
    IF a = 0 \/ b = 0 THEN 0
    ELSE 2 * BitAnd(a \div 2, b \div 2)
         + (IF a % 2 = 1 /\ b % 2 = 1 THEN 1 ELSE 0)

RECURSIVE BitOr(_, _)
BitOr(a, b) ==
    IF a = 0 THEN b
    ELSE IF b = 0 THEN a
    ELSE 2 * BitOr(a \div 2, b \div 2)
         + (IF a % 2 = 1 \/ b % 2 = 1 THEN 1 ELSE 0)

RECURSIVE trailing_zeros(_)
trailing_zeros(x) ==
    IF x = 0 THEN 16
    ELSE IF x % 2 = 1 THEN 0
    ELSE 1 + trailing_zeros(x \div 2)

RECURSIVE Pow2AtLeast(_, _)
Pow2AtLeast(n, p) == IF p >= n THEN p ELSE Pow2AtLeast(n, 2 * p)

next_power_of_two(n) == Pow2AtLeast(n, 1)

\* ---------------------------------------------------------------- BitMask
\* matches: bit i of the mask is set iff vec[i] = predicate (movemask of a
\* byte-wise compare of the 16 loaded bytes).
RECURSIVE matches_from(_, _, _)
matches_from(vec, predicate, i) ==
    IF i = 16 THEN 0
    ELSE (IF vec[i] = predicate THEN 2 ^ i ELSE 0)
         + matches_from(vec, predicate, i + 1)

matches(vec, predicate) == matches_from(vec, predicate, 0)

\* A next that subtracts one instead of clearing the lowest set bit.
BitMaskNext_decrement(mask) ==
    [item |-> trailing_zeros(mask), mask |-> mask - 1]

\* Iterator::next on a non-zero mask: the item yielded and the mask left.
BitMaskNext(mask) ==
    [item |-> trailing_zeros(mask), mask |-> BitAnd(mask, mask - 1)]

\* ------------------------------------------------------------------- map
\* A tag that keeps the top bit of the low byte of the hash.
ctrl_hash_byte(h) == BitAnd(h, 255)

ctrl_hash(h) == BitAnd(h, 127)

Deleted == 128
Empty == 254

bucket_size == 16

SlotEmpty == [occ |-> FALSE, hash |-> 0, value |-> 0]
Occupied(h, v) == [occ |-> TRUE, hash |-> h, value |-> v]

hash(key) == KeyHashes[key]

modulo(m, offset) == BitAnd(offset, m.capacity - 1)

new ==
    [data     |-> [i \in 0..(bucket_size - 1) |-> SlotEmpty],
     ctrl     |-> [i \in 0..(bucket_size * 2 - 1) |-> Empty],
     capacity |-> bucket_size,
     deleted  |-> 0,
     len      |-> 0]

\* Vec::resize(n, fill): truncate or extend with fill.
VecResize(vec, oldLen, n, fill) ==
    [i \in 0..(n - 1) |-> IF i < oldLen THEN vec[i] ELSE fill]

with_capacity(cap) ==
    LET map == new
        c == next_power_of_two(cap)
    IN [map EXCEPT
          !.capacity = c,
          !.data = VecResize(map.data, bucket_size, c, SlotEmpty),
          !.ctrl = VecResize(map.ctrl, bucket_size * 2, c + 16, Empty)]

\* A clear that sizes the fresh ctrl vector by capacity alone and so leaves
\* the 16 tail bytes as they were.
clear_keeps_tail(m) ==
    [m EXCEPT
       !.data = [i \in 0..(m.capacity - 1) |-> SlotEmpty],
       !.ctrl = [i \in 0..(m.capacity + 16 - 1) |->
                    IF i < m.capacity THEN Empty ELSE m.ctrl[i]],
       !.deleted = 0,
       !.len = 0]

clear(m) ==
    [m EXCEPT
       !.data = [i \in 0..(m.capacity - 1) |-> SlotEmpty],
       !.ctrl = [i \in 0..(m.capacity + 16 - 1) |-> Empty],
       !.deleted = 0,
       !.len = 0]

map_len(m) == m.len
is_empty(m) == map_len(m) = 0
map_capacity(m) == m.capacity

\* ------------------------------------------------------------------- get
None == <<"None">>
Some(v) == <<"Some", v>>
Panic == <<"Panic">>        \* the unreachable!() arm
Diverges == <<"Diverges">>  \* the loop never returns
Continue == <<"Continue">>  \* the for loop ran out of candidates

\* The body of `for item in ctrl_mask | empty_mask`.
RECURSIVE probe_window(_, _, _, _, _)
probe_window(m, mask, slot, h, c) ==
    IF mask = 0 THEN Continue
    ELSE LET nx == BitMaskNext(mask)
             offset == modulo(m, slot + nx.item)
             val == m.ctrl[offset]
         IN IF val = c
            THEN IF ~m.data[offset].occ THEN Panic
                 ELSE IF m.data[offset].hash = h
                      THEN Some(m.data[offset].value)
                      ELSE probe_window(m, nx.mask, slot, h, c)
            ELSE IF val = Empty THEN None
            ELSE probe_window(m, nx.mask, slot, h, c)

\* The outer loop.  The loop state is `slot` alone and the map is not
\* written, so coming back to a slot already tried means the loop never ends.
RECURSIVE get_loop(_, _, _, _, _)
get_loop(m, slot, h, c, tried) ==
    IF slot \in tried THEN Diverges
    ELSE LET buffer == [i \in 0..15 |-> m.ctrl[slot + i]]
             empty_mask == matches(buffer, Empty)
             ctrl_mask == matches(buffer, c)
             r == probe_window(m, BitOr(ctrl_mask, empty_mask), slot, h, c)
         IN IF r = Continue
            THEN get_loop(m, modulo(m, slot + 16), h, c, tried \cup {slot})
            ELSE r

get(m, key) ==
    LET h == hash(key)
    IN get_loop(m, modulo(m, h), h, ctrl_hash(h), {})

\* ---------------------------------------------------- set, delete, resize
exceeded_load_factor(m) == m.capacity * 3 < (m.len + m.deleted) * 4

NoIdx == 0 - 1     \* a walk that never stops

\* A write of one control byte, with the copy into the tail for idx in 0..16.
store_ctrl(ctrl, capacity, idx, byte) ==
    IF idx \in 0..15
    THEN [ctrl EXCEPT ![capacity + idx] = byte, ![idx] = byte]
    ELSE [ctrl EXCEPT ![idx] = byte]

\* resize's inner loop: the first Empty data slot from idx on.
\* A resize that installs every entry in its home slot without probing.
resize_walk_home(m, idx, tried) == idx

RECURSIVE resize_walk(_, _, _)
resize_walk(m, idx, tried) ==
    IF idx \in tried THEN NoIdx
    ELSE IF ~m.data[idx].occ THEN idx
    ELSE resize_walk(m, modulo(m, idx + 1), tried \cup {idx})

\* resize's `for slot in old`, from old slot i on.
RECURSIVE resize_from(_, _, _, _)
resize_from(m, old, oldLen, i) ==
    IF i = oldLen THEN m
    ELSE IF old[i].occ
    THEN LET idx == resize_walk(m, modulo(m, old[i].hash), {})
             c == ctrl_hash(old[i].hash)
             m2 == [m EXCEPT
                      !.ctrl = store_ctrl(m.ctrl, m.capacity, idx, c),
                      !.data = [m.data EXCEPT ![idx] = old[i]]]
         IN resize_from(m2, old, oldLen, i + 1)
    ELSE resize_from(m, old, oldLen, i + 1)

\* A resize that carries the tombstone count over to the new table.
resize_keeps_deleted(m) ==
    LET cap == next_power_of_two(m.capacity + 1)
        fresh == [m EXCEPT
                    !.capacity = cap,
                    !.ctrl = [i \in 0..(cap + 16 - 1) |-> Empty],
                    !.data = [i \in 0..(cap - 1) |-> SlotEmpty]]
    IN resize_from(fresh, m.data, m.capacity, 0)

resize(m) ==
    LET cap == next_power_of_two(m.capacity + 1)
        fresh == [m EXCEPT
                    !.capacity = cap,
                    !.deleted = 0,
                    !.ctrl = [i \in 0..(cap + 16 - 1) |-> Empty],
                    !.data = [i \in 0..(cap - 1) |-> SlotEmpty]]
    IN resize_from(fresh, m.data, m.capacity, 0)

\* A set loop that walks over every Occupied slot, the key's own included
\* (the guard `if slot.hash != hash` left out).
RECURSIVE set_walk_past_own(_, _, _, _)
set_walk_past_own(m, idx, h, tried) ==
    IF idx \in tried THEN NoIdx
    ELSE IF m.data[idx].occ
    THEN set_walk_past_own(m, modulo(m, idx + 1), h, tried \cup {idx})
    ELSE idx

\* set's loop: walk while the slot is Occupied by another hash.
RECURSIVE set_walk(_, _, _, _)
set_walk(m, idx, h, tried) ==
    IF idx \in tried THEN NoIdx
    ELSE IF m.data[idx].occ /\ m.data[idx].hash # h
    THEN set_walk(m, modulo(m, idx + 1), h, tried \cup {idx})
    ELSE idx

\* The table set probes: resized first when the load factor is exceeded.
set_table(m) == IF exceeded_load_factor(m) THEN resize(m) ELSE m

\* The slot the loop stops at in table t.
set_probe(t, key) == set_walk(t, modulo(t, hash(key)), hash(key), {})

set_slot(m, key) == set_probe(set_table(m), key)

set(m, key, value) ==
    LET t == set_table(m)
        h == hash(key)
        idx == set_probe(t, key)
        c == ctrl_hash(h)
    IN [t EXCEPT
          !.ctrl = store_ctrl(t.ctrl, t.capacity, idx, c),
          !.len = t.len + 1,
          !.data = [t.data EXCEPT ![idx] = Occupied(h, value)]]

\* delete's loop: the slot holding the hash, NotFound on the first Empty data
\* slot (the early return), NoIdx when the walk never stops.
NotFound == 0 - 2

\* A delete loop that leaves the loop on an Empty slot instead of returning
\* (`Slot::Empty => break`).
RECURSIVE delete_walk_break(_, _, _, _)
delete_walk_break(m, idx, h, tried) ==
    IF idx \in tried THEN NoIdx
    ELSE IF m.data[idx].occ /\ m.data[idx].hash = h THEN idx
    ELSE IF ~m.data[idx].occ THEN idx
    ELSE delete_walk_break(m, modulo(m, idx + 1), h, tried \cup {idx})

RECURSIVE delete_walk(_, _, _, _)
delete_walk(m, idx, h, tried) ==
    IF idx \in tried THEN NoIdx
    ELSE IF m.data[idx].occ /\ m.data[idx].hash = h THEN idx
    ELSE IF ~m.data[idx].occ THEN NotFound
    ELSE delete_walk(m, modulo(m, idx + 1), h, tried \cup {idx})

delete_slot(m, key) == delete_walk(m, modulo(m, hash(key)), hash(key), {})

\* A delete that writes the tombstone without counting it.
delete_uncounted(m, key) ==
    LET idx == delete_slot(m, key)
    IN IF idx = NotFound THEN m
       ELSE [m EXCEPT
               !.ctrl = store_ctrl(m.ctrl, m.capacity, idx, Deleted),
               !.data = [m.data EXCEPT ![idx] = SlotEmpty],
               !.len = m.len - 1]

delete(m, key) ==
    LET idx == delete_slot(m, key)
    IN IF idx = NotFound THEN m
       ELSE [m EXCEPT
               !.ctrl = store_ctrl(m.ctrl, m.capacity, idx, Deleted),
               !.data = [m.data EXCEPT ![idx] = SlotEmpty],
               !.deleted = m.deleted + 1,
               !.len = m.len - 1]

\* ----------------------------------------------------------------- state
VARIABLES
    data, ctrl, len, capacity, deleted,   \* the fields of StampedeMap
    pc,        \* "idle" between calls, "hung" inside a call that never returns
    built,     \* the constructor call [fn, cap] until the first call on the map
    shadow,    \* what a dictionary would hold: key -> value, Never or Gone
    twin,      \* a second map, built by with_capacity and fed the same sets
    iter       \* a BitMask being iterated: the mask it had, has, and its items

vars == <<data, ctrl, len, capacity, deleted, pc, built, shadow, twin, iter>>

Never == 0        \* the key was not set since construction or the last clear
Gone == 0 - 1     \* the key's most recent operation is delete

Self ==
    [data |-> data, ctrl |-> ctrl, capacity |-> capacity,
     deleted |-> deleted, len |-> len]

Install(m) ==
    /\ data' = m.data
    /\ ctrl' = m.ctrl
    /\ len' = m.len
    /\ capacity' = m.capacity
    /\ deleted' = m.deleted

InitWith(m, fn, cap) ==
    /\ data = m.data
    /\ ctrl = m.ctrl
    /\ len = m.len
    /\ capacity = m.capacity
    /\ deleted = m.deleted
    /\ pc = "idle"
    /\ built = [fn |-> fn, cap |-> cap]
    /\ shadow = [k \in AllKeys |-> Never]

\* One map alone: no second map is fed and no BitMask is iterated.
NoTwin == new
NoIter == [start |-> 0, mask |-> 0, items |-> << >>, done |-> TRUE]

Alone ==
    /\ twin = NoTwin
    /\ iter = NoIter

Init == InitWith(new, "new", 0) /\ Alone

InitCap ==
    /\ \E n \in 0..MaxCapArg : InitWith(with_capacity(n), "with_capacity", n)
    /\ Alone

Used == [fn |-> "used", cap |-> 0]

Hang ==
    /\ pc' = "hung"
    /\ built' = Used
    /\ UNCHANGED <<data, ctrl, len, capacity, deleted, shadow>>

Set(key, value) ==
    /\ pc = "idle"
    /\ len + deleted < MaxLoad
    /\ IF set_slot(Self, key) = NoIdx
       THEN Hang
       ELSE /\ Install(set(Self, key, value))
            /\ shadow' = [shadow EXCEPT ![key] = value]
            /\ built' = Used
            /\ UNCHANGED pc

Delete(key) ==
    /\ pc = "idle"
    /\ delete_slot(Self, key) \in {NotFound, NoIdx} \/ deleted < MaxDeleted
    /\ IF delete_slot(Self, key) = NoIdx
       THEN Hang
       ELSE /\ Install(delete(Self, key))
            /\ shadow' = [shadow EXCEPT ![key] = Gone]
            /\ built' = Used
            /\ UNCHANGED pc

Clear ==
    /\ pc = "idle"
    /\ Install(clear(Self))
    /\ shadow' = [k \in AllKeys |-> Never]
    /\ built' = Used
    /\ UNCHANGED pc

Next ==
    \/ \E key \in Keys, value \in Values :
           Set(key, value) /\ UNCHANGED <<twin, iter>>
    \/ \E key \in Keys : Delete(key) /\ UNCHANGED <<twin, iter>>
    \/ Clear /\ UNCHANGED <<twin, iter>>

Spec == Init /\ [][Next]_vars

SpecCap == InitCap /\ [][Next]_vars

\* ------------------------------------------------- two maps fed in step
\* The map of new(), which resizes when its load factor is exceeded, and a
\* map of with_capacity(TwinCap), sized so that no set on it resizes: by
\* the guard of Set, len + deleted stays at most MaxLoad, and
\* capacity * 3 >= (2 * MaxLoad) * 3 > MaxLoad * 4.
TwinCap == 2 * MaxLoad

InitTwin ==
    /\ InitWith(new, "new", 0)
    /\ twin = with_capacity(TwinCap)
    /\ iter = NoIter

SetBoth(key, value) ==
    /\ Set(key, value)
    /\ twin' = set(twin, key, value)
    /\ UNCHANGED iter

NextTwin == \E key \in TwinKeys, value \in Values : SetBoth(key, value)

SpecTwin == InitTwin /\ [][NextTwin]_vars

\* ------------------------------------------------ iterating a BitMask
\* BitMask { mask: u16 }: every value of the field.
Masks == 0..(2 ^ 16 - 1)

InitMask ==
    /\ InitWith(new, "new", 0)
    /\ twin = NoTwin
    /\ \E m \in Masks :
          iter = [start |-> m, mask |-> m, items |-> << >>, done |-> FALSE]

\* One call of Iterator::next: None when the mask is 0, else the item.
IterNext ==
    /\ ~iter.done
    /\ IF iter.mask = 0
       THEN iter' = [iter EXCEPT !.done = TRUE]
       ELSE LET nx == BitMaskNext(iter.mask)
            IN iter' = [iter EXCEPT !.mask = nx.mask,
                                    !.items = Append(@, nx.item)]
    /\ UNCHANGED <<data, ctrl, len, capacity, deleted, pc, built, shadow, twin>>

NextMask == IterNext

SpecMask == InitMask /\ [][NextMask]_vars

\* ---------------------------------------------------------------- claims
live(k) == shadow[k] \in Values

Max(a, b) == IF a >= b THEN a ELSE b

IsPowerOfTwo(n) == n >= 1 /\ next_power_of_two(n) = n

\* C1: every live key reads back the value of its most recent set.
C1_LiveKeyReadsLatest ==
    \A k \in Keys : live(k) => get(Self, k) = Some(shadow[k])

\* C2: a key whose most recent operation is delete reads back None.
C2_DeletedKeyReadsNone ==
    \A k \in Keys : shadow[k] = Gone => get(Self, k) = None

\* C3: in every state, for every key k and value v, set(k, v) returns and a
\* get(k) right after it returns Some(v).
C3_SetThenGet ==
    pc = "idle" =>
        \A k \in AllKeys, v \in Values :
            /\ set_slot(Self, k) # NoIdx
            /\ get(set(Self, k, v), k) = Some(v)

\* C3 witness: a set that resizes a 16-slot table holding a tombstone, and
\* installs its key away from the key's home slot, is read back by get.
C3_Witness ==
    /\ pc = "idle"
    /\ capacity = 16
    /\ deleted > 0
    /\ exceeded_load_factor(Self)
    /\ \E k \in AllKeys, v \in Values :
          /\ set_slot(Self, k) # modulo(set_table(Self), hash(k))
          /\ get(set(Self, k, v), k) = Some(v)

\* C4: len() is the number of live keys.
C4_LenCountsLiveKeys ==
    map_len(Self) = Cardinality({k \in Keys : live(k)})

\* C5: with_capacity(n) returns an empty map of capacity
\* max(16, next_power_of_two(n)).
C5_WithCapacity ==
    built.fn = "with_capacity" =>
        /\ map_capacity(Self) = Max(16, next_power_of_two(built.cap))
        /\ len = 0
        /\ deleted = 0
        /\ \A i \in DOMAIN ctrl : ctrl[i] = Empty
        /\ \A i \in DOMAIN data : data[i] = SlotEmpty

\* C6: capacity is a power of two that is at least 16, ctrl has capacity + 16
\* bytes and data has capacity slots.
C6_Shape ==
    /\ IsPowerOfTwo(map_capacity(Self))
    /\ map_capacity(Self) >= 16
    /\ DOMAIN ctrl = 0..(capacity + 16 - 1)
    /\ DOMAIN data = 0..(capacity - 1)

\* C7: the tail mirror: ctrl[i] = ctrl[capacity + i] for every i in 0..15.
C7_TailMirror ==
    \A i \in 0..15 : ctrl[i] = ctrl[capacity + i]

\* C8: after every public operation (len + deleted) * 4 <= capacity * 3.
C8_LoadFactor ==
    (len + deleted) * 4 <= capacity * 3

\* C9: every call of get, set and delete returns.
C9_Terminates ==
    /\ pc # "hung"
    /\ \A k \in AllKeys :
          /\ get(Self, k) # Diverges
          /\ set_slot(Self, k) # NoIdx
          /\ delete_slot(Self, k) # NoIdx

\* C10: delete(k) of a key that get(k) does not find changes nothing.
C10_DeleteAbsentIsNoop ==
    \A k \in AllKeys :
        get(Self, k) = None =>
            /\ delete_slot(Self, k) # NoIdx
            /\ delete(Self, k) = Self

\* C10 witness: the absent key's home slot is a tombstone with an occupied
\* slot right after it, and delete leaves every field as it was.
C10_Witness ==
    \E k \in AllKeys :
        /\ get(Self, k) = None
        /\ ctrl[modulo(Self, hash(k))] = Deleted
        /\ data[modulo(Self, hash(k) + 1)].occ
        /\ delete(Self, k) = Self

\* C11: after clear() get(k) is None for every key, len and deleted are 0,
\* every control byte (the 16 tail bytes included) is EMPTY and the capacity
\* is what it was.
C11_ClearEmpties ==
    pc = "idle" =>
        LET c == clear(Self)
        IN /\ \A k \in AllKeys : get(c, k) = None
           /\ map_len(c) = 0
           /\ c.deleted = 0
           /\ DOMAIN c.ctrl = 0..(capacity + 16 - 1)
           /\ \A i \in DOMAIN c.ctrl : c.ctrl[i] = Empty
           /\ map_capacity(c) = capacity

\* C11 witness: clear is applied to a resized table that holds a tombstone,
\* a tag in its tail and a key get finds, and leaves it empty.
C11_Witness ==
    /\ pc = "idle"
    /\ capacity = 32
    /\ deleted > 0
    /\ \E i \in 0..15 : ctrl[capacity + i] < 128
    /\ \E k \in Keys : get(Self, k) # None
    /\ \A k \in AllKeys : get(clear(Self), k) = None
    /\ clear(Self).len = 0

\* C12: a map of new(), which resizes along the way, and a map sized ahead
\* so that it never resizes, fed the same sets in the same order, give the
\* same get(k) answer for every key k.
C12_ResizePreservesContent ==
    pc = "idle" => \A k \in AllKeys : get(Self, k) = get(twin, k)

\* C12 witness: the map of new() has resized, the other map has the
\* capacity it was built with, the two tables are laid out differently and
\* a key wrapped behind slot 15 before the resize is found in both.
C12_Witness ==
    /\ pc = "idle"
    /\ capacity = 32
    /\ twin.capacity = next_power_of_two(TwinCap)
    /\ twin.len = len
    /\ twin.data # data
    /\ \E k \in TwinKeys :
          /\ hash(k) = 143
          /\ get(Self, k) # None
          /\ get(Self, k) = get(twin, k)

\* The indices of the set bits of a 16-bit mask.
SetBits(m) == {i \in 0..15 : (m \div (2 ^ i)) % 2 = 1}

\* C13: iterating a BitMask yields exactly the indices of the set bits of
\* the mask, in strictly ascending order, each once, and returns None after
\* popcount(mask) items: the items so far are the lowest set bits in
\* ascending order, and next returns None exactly when all were yielded.
C13_IterYieldsSetBits ==
    LET bits == SetBits(iter.start)
        n == Len(iter.items)
        yielded == {iter.items[i] : i \in 1..n}
    IN /\ yielded \subseteq bits
       /\ \A i \in 1..(n - 1) : iter.items[i] < iter.items[i + 1]
       /\ \A b \in bits \ yielded : \A y \in yielded : y < b
       /\ (iter.mask = 0) <=> (yielded = bits)
       /\ iter.done => (yielded = bits /\ n = Cardinality(bits))

\* C13 witness: next has returned None after yielding the items of a mask
\* with several set bits, the highest and the lowest among them.
C13_Witness ==
    /\ iter.done
    /\ iter.start = 2 ^ 15 + 11
    /\ iter.items = <<0, 1, 3, 15>>

\* C14: for every slot i below capacity, ctrl[i] is a hash tag (top bit
\* clear) iff data[i] is Occupied, and is then hash & 0x7F of the slot's
\* hash; ctrl[i] is EMPTY or DELETED iff data[i] is Empty.  get therefore
\* never reaches its unreachable!().
C14_CtrlMatchesData ==
    /\ \A i \in 0..(capacity - 1) :
          /\ (ctrl[i] < 128) <=> data[i].occ
          /\ data[i].occ => ctrl[i] = BitAnd(data[i].hash, 127)
          /\ (ctrl[i] \in {Empty, Deleted}) <=> ~data[i].occ
    /\ pc = "idle" => \A k \in AllKeys : get(Self, k) # Panic

\* C14 witness: after a resize and a delete the table has an Occupied slot
\* whose hash has bit 7 set, a DELETED byte and an EMPTY byte.
C14_Witness ==
    /\ pc = "idle"
    /\ capacity = 32
    /\ \E i \in 0..(capacity - 1) :
          data[i].occ /\ data[i].hash = 143 /\ ctrl[i] = 15
    /\ \E i \in 0..(capacity - 1) : ctrl[i] = Deleted /\ ~data[i].occ
    /\ \E i \in 0..(capacity - 1) : ctrl[i] = Empty /\ ~data[i].occ

\* C15: the deleted counter equals the number of DELETED control bytes in
\* ctrl[0..capacity); a set that installs its entry in a tombstoned slot
\* decrements deleted.
C15_DeletedCountsTombstones ==
    deleted = Cardinality({i \in 0..(capacity - 1) : ctrl[i] = Deleted})

\* The Occupied slots of a table as a multiset of (hash, value) pairs.
Entries(m) == {m.data[i] : i \in DOMAIN m.data} \ {SlotEmpty}
Count(m, e) == Cardinality({i \in DOMAIN m.data : m.data[i] = e})
SameEntries(a, b) ==
    \A e \in Entries(a) \cup Entries(b) : Count(a, e) = Count(b, e)

\* C16: every resize doubles the capacity, leaves len unchanged, sets
\* deleted to 0, leaves no DELETED control byte in the new band, and the
\* multiset of (hash, value) pairs in Occupied slots is the same after as
\* before.  Resize is called by set when the load factor is exceeded.
C16_ResizeKeepsEntries ==
    (pc = "idle" /\ exceeded_load_factor(Self)) =>
        LET r == resize(Self)
        IN /\ r.capacity = 2 * capacity
           /\ r.len = len
           /\ r.deleted = 0
           /\ \A i \in 0..(r.capacity - 1) : r.ctrl[i] # Deleted
           /\ SameEntries(Self, r)

\* C16 witness: a table that is about to be resized holds a tombstone and
\* the same (hash, value) pair in two Occupied slots, and the resized table
\* holds the pair twice as well.
C16_Witness ==
    /\ pc = "idle"
    /\ exceeded_load_factor(Self)
    /\ deleted > 0
    /\ \E e \in Entries(Self) :
          /\ Count(Self, e) = 2
          /\ Count(resize(Self), e) = 2
    /\ resize(Self).capacity = 32

\* C17: immediately after a resize triggered by set, before the pending
\* entry is inserted, (len + deleted) * 8 <= capacity * 3.
C17_LoadAfterResize ==
    (pc = "idle" /\ exceeded_load_factor(Self)) =>
        LET r == resize(Self)
        IN (r.len + r.deleted) * 8 <= r.capacity * 3

\* C18: no two Occupied slots hold the same hash.
C18_NoDuplicateHash ==
    \A i, j \in 0..(capacity - 1) :
        (i # j /\ data[i].occ /\ data[j].occ) => data[i].hash # data[j].hash

\* The control bytes of the band ctrl[0..capacity) that are not EMPTY.
NonEmptyCtrl == {i \in 0..(capacity - 1) : ctrl[i] # Empty}

\* C19: in every state reachable from new() by set, delete and clear the
\* number of non-EMPTY control bytes in ctrl[0..capacity) is at most
\* len + deleted, and at least one control byte of the band is EMPTY.
\* len + deleted stays below capacity (it is at most 3/4 of it when set
\* checks the load, and set adds one), which is what makes the second part
\* follow from the first for any number of keys.
C19_BandKeepsAnEmpty ==
    /\ Cardinality(NonEmptyCtrl) <= len + deleted
    /\ (len + deleted) * 4 <= capacity * 3 + 4
    /\ len + deleted < capacity
    /\ \E i \in 0..(capacity - 1) : ctrl[i] = Empty

\* C19 witness: a 16-slot table at the highest load set leaves behind
\* (13 of 16), with a tombstone and an Occupied slot in its band.
C19_Witness ==
    /\ pc = "idle"
    /\ capacity = 16
    /\ len + deleted = 13
    /\ \E i \in NonEmptyCtrl : ctrl[i] = Deleted
    /\ \E i \in NonEmptyCtrl : data[i].occ
    /\ Cardinality(NonEmptyCtrl) <= len + deleted

====
